---- MODULE Spec2Model ----
(***************************************************************************)
(* Model of the puzzle-solving engine of ai-btc-solver                     *)
(* (src/src/lib/aiSolver.ts): calls of solvePuzzleWithAI on a puzzle, each *)
(* from the pending delay timer to the returned SolverResult, and of the   *)
(* page that starts such calls from its buttons (src/unnamed/part_000).    *)
(* The older page src/src/pages/Index.tsx, which settles a solve by a      *)
(* timer and a random draw without the engine, is modelled beside it.      *)
(* The timeMs field of the result is left out: no strategy reads it, and   *)
(* it is the only place a clock reading goes to.  The attempt counters of  *)
(* the page's solver panel are left out: no handler reads them.            *)
(*                                                                         *)
(* A JavaScript string is modelled as the sequence of its UTF-16 code      *)
(* units (naturals below 65536).  An optional value (a field that may be   *)
(* undefined) is the empty sequence when absent and a one-element sequence *)
(* when present.  A JavaScript number that holds an integer, an infinity or *)
(* NaN is a record [nan, inf, neg, mag], mag being the decimal digits of   *)
(* its magnitude.  A call that may throw or never end yields a completion  *)
(* record [threw, hangs, val].  Labels that the program only ever builds from literals   *)
(* (the method names, the puzzle types) are TLA+ strings.                  *)
(***************************************************************************)
EXTENDS Integers, Sequences, FiniteSets, TLC

\* one caller of the engine: the descriptor passed, the random draw, the
\* position of the call, its outcome, and the calls that ended before it
VARIABLES puzzle, rnd, pc, result, history

\* the page: its puzzle list, its two solver fields, and the number of
\* solvePuzzleWithAI calls it awaits for each puzzle
VARIABLES puzzles, solverRunning, currentSolvingPuzzle, pending

\* a text and the results of decodeROT13 applied to it over and over
VARIABLES rounds

engineVars == <<puzzle, rnd, pc, result, history>>

pageVars == <<puzzles, solverRunning, currentSolvingPuzzle, pending>>

codecVars == <<rounds>>

vars == <<puzzle, rnd, pc, result, history,
          puzzles, solverRunning, currentSolvingPuzzle, pending, rounds>>

---------------------------------------------------------------------------
(* Bounds of the checked instance *)

\* longest challenge drawn letter by letter from Sigma
MaxLen == 4
\* most suffix pieces appended to a sequence signature
MaxPieces == 2
\* largest bit width drawn; 2^(MaxBits + 1) is still a 32-bit integer, wider
\* widths (the catalog's 50 and 66) are outside the checked instance
MaxBits == 23
\* Math.random() is drawn from the grid {0/RndDen, ..., (RndDen-1)/RndDen}
RndDen == 4
\* most calls one caller makes in a row
MaxCalls == 2
\* most calls the page awaits for one puzzle at a time
MaxPending == 2
\* longest text decodeROT13 is applied to
MaxText == 2
\* most applications of decodeROT13 in a row
MaxRounds == 2

---------------------------------------------------------------------------
(* Optional values, NaN-able numbers, completions *)

None == <<>>
Some(x) == <<x>>

NaN == [nan |-> TRUE, inf |-> FALSE, neg |-> FALSE, mag |-> <<>>]
\* a finite integer: its sign and the decimal digits of its magnitude, most
\* significant first and without leading zero, <<>> for zero (-0 is held as
\* 0: the two print alike and add alike up to that sign)
Finite(neg, mag) == [nan |-> FALSE, inf |-> FALSE, neg |-> neg /\ mag # <<>>, mag |-> mag]
Infinity(neg) == [nan |-> FALSE, inf |-> TRUE, neg |-> neg, mag |-> <<>>]

Return(v) == [threw |-> FALSE, hangs |-> FALSE, val |-> v]
Throw == [threw |-> TRUE, hangs |-> FALSE, val |-> <<>>]
\* the completion of a call that never ends
Hang == [threw |-> FALSE, hangs |-> TRUE, val |-> <<>>]

Min(a, b) == IF a <= b THEN a ELSE b

---------------------------------------------------------------------------
(* ECMAScript string primitives used by the solver *)

\* WhiteSpace and LineTerminator code units: what \s, trim() and the
\* leading-blank skip of parseInt all use
WhiteSpace == {9, 10, 11, 12, 13, 32, 160, 5760, 8232, 8233, 8239, 8287, 12288, 65279} \cup (8192..8202)

\* the code units the regular expression atom . does not match
LineTerminator == {10, 13, 8232, 8233}

\* the ASCII whitespace atob removes before decoding
AsciiWhitespace == {9, 10, 12, 13, 32}

\* s.replace(/\s/g, '') and the whitespace removal of atob
StripChars(s, set) == SelectSeq(s, LAMBDA c : c \notin set)

RECURSIVE TrimLeft(_)
TrimLeft(s) ==
    IF s = <<>> THEN <<>>
    ELSE IF Head(s) \in WhiteSpace THEN TrimLeft(Tail(s))
    ELSE s

RECURSIVE TrimRight(_)
TrimRight(s) ==
    IF s = <<>> THEN <<>>
    ELSE IF s[Len(s)] \in WhiteSpace THEN TrimRight(SubSeq(s, 1, Len(s) - 1))
    ELSE s

\* String.prototype.trim
Trim(s) == TrimRight(TrimLeft(s))

\* value of a digit character in parseInt, 99 when the character is no digit
DigitVal(c) ==
    IF c >= 48 /\ c <= 57 THEN c - 48
    ELSE IF c >= 97 /\ c <= 122 THEN c - 87
    ELSE IF c >= 65 /\ c <= 90 THEN c - 55
    ELSE 99

RECURSIVE DigitPrefixLen(_, _)
DigitPrefixLen(s, radix) ==
    IF s = <<>> THEN 0
    ELSE IF DigitVal(Head(s)) >= radix THEN 0
    ELSE 1 + DigitPrefixLen(Tail(s), radix)

RECURSIVE StripZeros(_)
StripZeros(d) == IF d # <<>> /\ Head(d) = 0 THEN StripZeros(Tail(d)) ELSE d

RECURSIVE FromNat(_)
\* the decimal digits of a natural number
FromNat(n) == IF n = 0 THEN <<>> ELSE FromNat(n \div 10) \o <<n % 10>>

RECURSIVE ToNat(_, _)
\* the natural number of a digit sequence, acc being the value so far
ToNat(d, acc) == IF d = <<>> THEN acc ELSE ToNat(Tail(d), acc * 10 + Head(d))

\* the number record of an integer
Num(n) == IF n < 0 THEN Finite(TRUE, FromNat(-n)) ELSE Finite(FALSE, FromNat(n))

\* the integer of a finite number record
ToInt(x) == IF x.neg THEN -ToNat(x.mag, 0) ELSE ToNat(x.mag, 0)

RECURSIVE LexLess(_, _)
\* for digit sequences of one length: a < b
LexLess(a, b) ==
    IF a = <<>> THEN FALSE
    ELSE IF Head(a) # Head(b) THEN Head(a) < Head(b)
    ELSE LexLess(Tail(a), Tail(b))

\* a < b on magnitudes
BigLess(a, b) == Len(a) < Len(b) \/ (Len(a) = Len(b) /\ LexLess(a, b))

\* the digits of d but the last, and the last digit
Front(d) == SubSeq(d, 1, Len(d) - 1)
Last(d) == d[Len(d)]

RECURSIVE BigAddCarry(_, _, _)
BigAddCarry(a, b, carry) ==
    IF a = <<>> /\ b = <<>> THEN FromNat(carry)
    ELSE LET x == IF a = <<>> THEN 0 ELSE Last(a)
             y == IF b = <<>> THEN 0 ELSE Last(b)
         IN  BigAddCarry(IF a = <<>> THEN <<>> ELSE Front(a),
                         IF b = <<>> THEN <<>> ELSE Front(b),
                         (x + y + carry) \div 10) \o <<(x + y + carry) % 10>>

\* a + b on magnitudes
BigAdd(a, b) == BigAddCarry(a, b, 0)

RECURSIVE BigSubBorrow(_, _, _)
BigSubBorrow(a, b, borrow) ==
    IF a = <<>> THEN <<>>
    ELSE LET y == (IF b = <<>> THEN 0 ELSE Last(b)) + borrow
         IN  BigSubBorrow(Front(a), IF b = <<>> THEN <<>> ELSE Front(b),
                          IF Last(a) < y THEN 1 ELSE 0)
             \o <<(Last(a) + 10 - y) % 10>>

\* a - b on magnitudes, for a >= b
BigSub(a, b) == StripZeros(BigSubBorrow(a, b, 0))

RECURSIVE BigMulAdd(_, _, _)
\* a * m + c on a magnitude, for naturals m >= 1 and c
BigMulAdd(a, m, c) ==
    IF a = <<>> THEN FromNat(c)
    ELSE BigMulAdd(Front(a), m, (Last(a) * m + c) \div 10) \o <<(Last(a) * m + c) % 10>>

RECURSIVE BigDivRem(_, _, _)
BigDivRem(a, m, rem) ==
    IF a = <<>> THEN <<>>
    ELSE <<(rem * 10 + Head(a)) \div m>> \o BigDivRem(Tail(a), m, (rem * 10 + Head(a)) % m)

\* a \div m on a magnitude, for a natural m >= 1
BigDiv(a, m) == StripZeros(BigDivRem(a, m, 0))

RECURSIVE BigModRem(_, _, _)
BigModRem(a, m, rem) ==
    IF a = <<>> THEN rem ELSE BigModRem(Tail(a), m, (rem * 10 + Head(a)) % m)

\* a % m on a magnitude, for a natural m >= 1
BigMod(a, m) == BigModRem(a, m, 0)

\* the decimal digits of 2^53 = 9007199254740992
TwoTo53 == <<9, 0, 0, 7, 1, 9, 9, 2, 5, 4, 7, 4, 0, 9, 9, 2>>

\* the largest exponent of a double with a 53-bit integer significand
MaxExponent == 971

RECURSIVE RoundLoop(_, _, _, _)
\* q is the magnitude shifted right by k bits, roundBit the bit shifted out
\* last and sticky whether a 1 was shifted out before it: shift until 53
\* bits are left, then round to nearest, ties to even
RoundLoop(q, k, roundBit, sticky) ==
    IF BigLess(q, TwoTo53)
    THEN [significand |-> IF roundBit = 1 /\ (sticky \/ BigMod(q, 2) = 1)
                          THEN BigMulAdd(q, 1, 1) ELSE q,
          exponent |-> k]
    ELSE RoundLoop(BigDiv(q, 2), k + 1, BigMod(q, 2), sticky \/ roundBit = 1)

RECURSIVE ShiftLeft(_, _)
\* m * 2^k on a magnitude
ShiftLeft(m, k) == IF k = 0 THEN m ELSE ShiftLeft(BigMulAdd(m, 2, 0), k - 1)

\* the double of sign neg, of a 53-bit significand and an exponent:
\* Infinity from 2^1024 on
Scaled(neg, r) ==
    IF r.exponent > MaxExponent \/ (r.exponent = MaxExponent /\ r.significand = TwoTo53)
    THEN Infinity(neg)
    ELSE Finite(neg, ShiftLeft(r.significand, r.exponent))

\* the double nearest to the integer of sign neg and magnitude mag: itself
\* below 2^53, else rounded to 53 bits, Infinity from 2^1024 - 2^970 on
RoundToDouble(neg, mag) ==
    IF BigLess(mag, TwoTo53) THEN Finite(neg, mag)
    ELSE Scaled(neg, RoundLoop(mag, 0, 0, FALSE))

\* the sum of two integers
Sum(a, b) ==
    IF a.neg = b.neg THEN Finite(a.neg, BigAdd(a.mag, b.mag))
    ELSE IF BigLess(a.mag, b.mag) THEN Finite(b.neg, BigSub(b.mag, a.mag))
    ELSE Finite(a.neg, BigSub(a.mag, b.mag))

\* the double nearest to an integer
Rounded(x) == RoundToDouble(x.neg, x.mag)

\* a + b on numbers
Plus(a, b) ==
    IF a.nan \/ b.nan THEN NaN
    ELSE IF a.inf /\ b.inf THEN (IF a.neg = b.neg THEN a ELSE NaN)
    ELSE IF a.inf THEN a
    ELSE IF b.inf THEN b
    ELSE Rounded(Sum(a, b))

RECURSIVE ParseDigits(_, _, _)
\* the integer a digit string denotes in a radix, acc being the value so far
ParseDigits(s, radix, acc) ==
    IF s = <<>> THEN acc
    ELSE ParseDigits(Tail(s), radix, BigMulAdd(acc, radix, DigitVal(Head(s))))

\* what parseInt(str, radix) reads of str; radix 0 stands for a call without
\* radix: the sign and the longest prefix of digits of the radix after the
\* leading white space, the sign and a 0x
ParsedPrefix(str, radix) ==
    LET s1 == TrimLeft(str)
        s2 == IF s1 # <<>> /\ Head(s1) \in {43, 45} THEN Tail(s1) ELSE s1
        hasPrefix == /\ radix \in {0, 16}
                     /\ Len(s2) >= 2
                     /\ s2[1] = 48
                     /\ s2[2] \in {88, 120}
        r == IF hasPrefix THEN 16 ELSE IF radix = 0 THEN 10 ELSE radix
        s3 == IF hasPrefix THEN SubSeq(s2, 3, Len(s2)) ELSE s2
    IN  [neg |-> s1 # <<>> /\ Head(s1) = 45,
         radix |-> r,
         digits |-> SubSeq(s3, 1, DigitPrefixLen(s3, r))]

\* the number of what parseInt has read: NaN without a digit, else the
\* double nearest to the integer read
ParsedNumber(p) ==
    IF p.digits = <<>> THEN NaN
    ELSE RoundToDouble(p.neg, ParseDigits(p.digits, p.radix, <<>>))

\* parseInt(str, radix)
parseInt(str, radix) == ParsedNumber(ParsedPrefix(str, radix))

\* String.fromCharCode(x): ToUint16 of the argument, NaN and the infinities
\* becoming 0
fromCharCode(x) ==
    IF x.nan \/ x.inf THEN 0
    ELSE IF x.neg THEN (65536 - BigMod(x.mag, 65536)) % 65536
    ELSE BigMod(x.mag, 65536)

\* the characters of a digit sequence
DigitChars(d) == [i \in 1..Len(d) |-> 48 + d[i]]

\* n zero digits
Zeros(n) == [i \in 1..n |-> 0]

RECURSIVE StripTrailingZeros(_)
StripTrailingZeros(d) ==
    IF d # <<>> /\ Last(d) = 0 THEN StripTrailingZeros(Front(d)) ELSE d

\* the magnitude v rounds to the double of magnitude mag
RoundsTo(v, mag) == RoundToDouble(FALSE, v) = Finite(FALSE, mag)

\* mag cut to its first k digits, and that plus one unit of the k-th place
CutDown(mag, k) == SubSeq(mag, 1, k) \o Zeros(Len(mag) - k)
CutUp(mag, k) == BigAdd(CutDown(mag, k), <<1>> \o Zeros(Len(mag) - k))

\* of two integers around mag the nearer one, the one of even k-th digit
\* if they are as near
Nearer(mag, k, down, up) ==
    IF BigLess(BigSub(mag, down), BigSub(up, mag)) THEN down
    ELSE IF BigLess(BigSub(up, mag), BigSub(mag, down)) THEN up
    ELSE IF mag[k] % 2 = 0 THEN down ELSE up

RECURSIVE ShortestFrom(_, _)
RECURSIVE ShortestOf(_, _, _, _, _, _)
\* down and up are mag cut to k digits, downFits and upFits say which of
\* them round to the double of magnitude mag
ShortestOf(mag, k, down, up, downFits, upFits) ==
    IF downFits /\ upFits THEN Nearer(mag, k, down, up)
    ELSE IF downFits THEN down
    ELSE IF upFits THEN up
    ELSE ShortestFrom(mag, k + 1)

\* the integer of fewest significant digits, k or more, that rounds to the
\* double of magnitude mag, the nearest one if two have that many
ShortestFrom(mag, k) ==
    IF k >= Len(mag) THEN mag
    ELSE ShortestOf(mag, k, CutDown(mag, k), CutUp(mag, k),
                    RoundsTo(CutDown(mag, k), mag), RoundsTo(CutUp(mag, k), mag))

\* the exponent form of the significant digits s and the exponent e
ExponentText(s, e) ==
    <<48 + s[1]>> \o (IF Len(s) > 1 THEN <<46>> \o DigitChars(Tail(s)) ELSE <<>>)
    \o <<101, 43>> \o DigitChars(FromNat(e))

\* the text of the shortest digits v: v itself up to 21 digits, and the
\* exponent form beyond
ShortestText(v) ==
    IF Len(v) <= 21 THEN DigitChars(v)
    ELSE ExponentText(StripTrailingZeros(v), Len(v) - 1)

\* the decimal text of a positive integer double: its digits below 2^53,
\* its shortest digits filled up with zeros beyond
MagnitudeToString(mag) ==
    IF BigLess(mag, TwoTo53) THEN DigitChars(mag)
    ELSE ShortestText(ShortestFrom(mag, 1))

\* Number.prototype.toString of a number that holds an integer, an infinity
\* or NaN
NumberToString(x) ==
    IF x.nan THEN <<78, 97, 78>>
    ELSE IF x.inf
    THEN (IF x.neg THEN <<45>> ELSE <<>>) \o <<73, 110, 102, 105, 110, 105, 116, 121>>
    ELSE IF x.mag = <<>> THEN <<48>>
    ELSE (IF x.neg THEN <<45>> ELSE <<>>) \o MagnitudeToString(x.mag)

RECURSIVE Split(_, _)
\* str.split(sep) for a one-character separator
Split(s, sep) ==
    IF \A i \in 1..Len(s) : s[i] # sep THEN <<s>>
    ELSE LET k == CHOOSE i \in 1..Len(s) : s[i] = sep /\ \A j \in 1..(i - 1) : s[j] # sep
         IN  <<SubSeq(s, 1, k - 1)>> \o Split(SubSeq(s, k + 1, Len(s)), sep)

\* str.includes(sub)
Includes(s, sub) ==
    \E i \in 0..(Len(s) - Len(sub)) : SubSeq(s, i + 1, i + Len(sub)) = sub

RECURSIVE BitXor(_, _)
\* a ^ b on non-negative integers
BitXor(a, b) ==
    IF a = 0 THEN b
    ELSE IF b = 0 THEN a
    ELSE 2 * BitXor(a \div 2, b \div 2) + ((a + b) % 2)

\* the test as it would be without the anchors: /[\x20-\x7E]+/.test(s)
IsPrintableUnanchored(s) == \E i \in 1..Len(s) : s[i] >= 32 /\ s[i] <= 126

\* /^[\x20-\x7E]+$/.test(s)
IsPrintable(s) == s # <<>> /\ \A i \in 1..Len(s) : s[i] >= 32 /\ s[i] <= 126

---------------------------------------------------------------------------
(* Codec library: aiSolver.ts lines 16-85 *)

\* position of a character in the Base64 alphabet, 99 when it is not in it
Base64Index(c) ==
    IF c >= 65 /\ c <= 90 THEN c - 65
    ELSE IF c >= 97 /\ c <= 122 THEN c - 71
    ELSE IF c >= 48 /\ c <= 57 THEN c + 4
    ELSE IF c = 43 THEN 62
    ELSE IF c = 47 THEN 63
    ELSE 99

RECURSIVE Base64Bytes(_)
\* the bytes encoded by a sequence of sextets, trailing bits discarded
Base64Bytes(v) ==
    IF Len(v) >= 4
    THEN LET n == v[1] * 262144 + v[2] * 4096 + v[3] * 64 + v[4]
         IN  <<n \div 65536, (n \div 256) % 256, n % 256>> \o Base64Bytes(SubSeq(v, 5, Len(v)))
    ELSE IF Len(v) = 3
    THEN LET n == v[1] * 4096 + v[2] * 64 + v[3]
         IN  <<n \div 1024, (n \div 4) % 256>>
    ELSE IF Len(v) = 2
    THEN <<(v[1] * 64 + v[2]) \div 16>>
    ELSE <<>>

\* the platform's atob (forgiving-base64 decode): throws on malformed input
atob(input) ==
    LET d == StripChars(input, AsciiWhitespace)
        n == Len(d)
        p == IF n % 4 = 0 /\ n >= 2 /\ d[n] = 61 /\ d[n - 1] = 61 THEN SubSeq(d, 1, n - 2)
             ELSE IF n % 4 = 0 /\ n >= 1 /\ d[n] = 61 THEN SubSeq(d, 1, n - 1)
             ELSE d
    IN  IF Len(p) % 4 = 1 THEN Throw
        ELSE IF \E i \in 1..Len(p) : Base64Index(p[i]) = 99 THEN Throw
        ELSE Return(Base64Bytes([i \in 1..Len(p) |-> Base64Index(p[i])]))

decodeBase64(input) ==
    LET r == atob(input)
    IN  IF r.threw THEN Return(<<>>) ELSE r

RECURSIVE HexPairs(_)
\* the loop of hexToAscii: one character per two-character slice
HexPairs(cleanHex) ==
    IF cleanHex = <<>> THEN <<>>
    ELSE <<fromCharCode(parseInt(SubSeq(cleanHex, 1, Min(2, Len(cleanHex))), 16))>>
         \o HexPairs(SubSeq(cleanHex, 3, Len(cleanHex)))

hexToAscii(hex) == Return(HexPairs(StripChars(hex, WhiteSpace)))

\* the replacement callback as it would be with the base of the capitals for
\* every letter
Rot13CharOneCase(code) ==
    IF (code >= 65 /\ code <= 90) \/ (code >= 97 /\ code <= 122)
    THEN ((code - 65 + 13) % 26) + 65
    ELSE code

\* the replacement callback of decodeROT13, applied to every character
Rot13Char(code) ==
    IF (code >= 65 /\ code <= 90) \/ (code >= 97 /\ code <= 122)
    THEN LET base == IF code >= 65 /\ code <= 90 THEN 65 ELSE 97
         IN  ((code - base + 13) % 26) + base
    ELSE code

\* decodeROT13 as it would be if it returned the rotated letters only
decodeROT13LettersOnly(input) ==
    LET letters == SelectSeq(input, LAMBDA c : c \in 65..90 \/ c \in 97..122)
    IN  Return([i \in 1..Len(letters) |-> Rot13Char(letters[i])])

decodeROT13(input) == Return([i \in 1..Len(input) |-> Rot13Char(input[i])])

binaryToAscii(binary) ==
    LET bytes == Split(binary, 32)
    IN  Return([i \in 1..Len(bytes) |-> fromCharCode(parseInt(bytes[i], 2))])

RECURSIVE MatchChunks(_)
\* hexInput.match(/.{1,2}/g) || []
MatchChunks(s) ==
    IF s = <<>> THEN <<>>
    ELSE IF Head(s) \in LineTerminator THEN MatchChunks(Tail(s))
    ELSE IF Len(s) >= 2 /\ s[2] \notin LineTerminator
    THEN <<SubSeq(s, 1, 2)>> \o MatchChunks(SubSeq(s, 3, Len(s)))
    ELSE <<SubSeq(s, 1, 1)>> \o MatchChunks(Tail(s))

\* inputByte ^ keyByte followed by String.fromCharCode: the low 16 bits
XorChar(inputByte, keyByte) == BitXor(fromCharCode(inputByte), keyByte)

decodeXOR(hexInput, key) ==
    LET input == MatchChunks(hexInput)
        keyByte(i) == IF key = <<>> THEN 0 ELSE key[((i - 1) % Len(key)) + 1]
    IN  Return([i \in 1..Len(input) |-> XorChar(parseInt(input[i], 16), keyByte(i))])

---------------------------------------------------------------------------
(* Sequence solvers: aiSolver.ts lines 87-132 *)

\* sequence.split(',').map(s => parseInt(s.trim())).filter(n => !isNaN(n))
ParsedNumbers(sequence) ==
    LET tokens == Split(sequence, 44)
        parsed == [i \in 1..Len(tokens) |-> parseInt(Trim(tokens[i]), 0)]
    IN  SelectSeq(parsed, LAMBDA n : ~n.nan)

solveFibonacci(sequence) ==
    LET numbers == ParsedNumbers(sequence)
    IN  IF Len(numbers) < 2 THEN Return(<<>>)
        ELSE LET n1 == numbers[Len(numbers) - 1]
                 n2 == numbers[Len(numbers)]
             IN  Return(NumberToString(Plus(n1, n2)))

RECURSIVE IsPrimeLoop(_, _)
\* the for loop of isPrime on a magnitude, i running while i <= Math.sqrt(n)
IsPrimeLoop(n, i) ==
    IF BigLess(n, BigMulAdd(FromNat(i), i, 0)) THEN TRUE
    ELSE IF BigMod(n, i) = 0 THEN FALSE
    ELSE IsPrimeLoop(n, i + 1)

\* isPrime(n) for a number but Infinity; for NaN both of its tests are
\* false and it says true
isPrime(n) ==
    IF n.nan THEN TRUE
    ELSE IF n.neg \/ BigLess(n.mag, <<2>>) THEN FALSE
    ELSE IsPrimeLoop(n.mag, 2)

RECURSIVE NextPrimeLoop(_)
RECURSIVE NextCandidate(_, _)
\* one round of the while loop of getNextPrime on a candidate that is no
\* prime, next being the value candidate++ gives it.  A candidate that
\* candidate++ leaves unchanged (a double from 2^53 on, or one below -2^53
\* that is not a neighbour of -2^53) stays for ever.  From a negative
\* candidate down to -2^53 every candidate up to 1 fails isPrime at n < 2
\* and candidate++ adds exactly 1: the loop arrives at 2.
NextCandidate(candidate, next) ==
    IF next = candidate THEN Hang
    ELSE IF candidate.neg /\ ~BigLess(TwoTo53, candidate.mag) THEN Return(Num(2))
    ELSE NextPrimeLoop(next)

\* the while loop of getNextPrime; isPrime(Infinity) never leaves its for
\* loop
NextPrimeLoop(candidate) ==
    IF candidate.inf /\ ~candidate.neg THEN Hang
    ELSE IF isPrime(candidate) THEN Return(candidate)
    ELSE NextCandidate(candidate, Plus(candidate, Num(1)))

\* getNextPrime as it would be if the search started at current itself
getNextPrimeInclusive(current) == NextPrimeLoop(current)

getNextPrime(current) == NextPrimeLoop(Plus(current, Num(1)))

solvePrimeSequence(sequence) ==
    LET numbers == ParsedNumbers(sequence)
    IN  IF Len(numbers) = 0 THEN Return(<<>>)
        ELSE LET next == getNextPrime(numbers[Len(numbers)])
             IN  IF next.hangs THEN Hang ELSE Return(NumberToString(next.val))

---------------------------------------------------------------------------
(* Strategies: aiSolver.ts lines 134-280.  A SolverResult is a record      *)
(* [success, solution, attempts, method]; solution is optional.            *)

\* "KEY"
XorKey == <<75, 69, 89>>

\* the names of the decoders array, in its order
decoders == <<"Base64", "Hex to ASCII", "ROT13", "Binary to ASCII", "XOR with KEY">>

\* decoders[i].fn()
RunDecoder(i, challenge) ==
    CASE i = 1 -> decodeBase64(challenge)
      [] i = 2 -> hexToAscii(challenge)
      [] i = 3 -> decodeROT13(challenge)
      [] i = 4 -> binaryToAscii(challenge)
      [] i = 5 -> decodeXOR(challenge, XorKey)

\* the acceptance test of the cascade on what a decoder call produced
Accepted(r) == ~r.threw /\ Len(r.val) > 0 /\ IsPrintable(r.val)

RECURSIVE CipherLoopNoBreak(_, _)
\* the loop as it would be without its break: every decoder runs and the
\* last accepted output stands
CipherLoopNoBreak(challenge, attempts) ==
    IF attempts = Len(decoders)
    THEN [solution |-> <<>>, method |-> "", attempts |-> attempts]
    ELSE LET r == RunDecoder(attempts + 1, challenge)
             rest == CipherLoopNoBreak(challenge, attempts + 1)
         IN  IF Accepted(r) /\ rest.solution = <<>>
             THEN [solution |-> r.val, method |-> decoders[attempts + 1], attempts |-> Len(decoders)]
             ELSE rest

RECURSIVE CipherLoopSkipLast(_, _)
\* the loop as it would be if it stopped one decoder short
CipherLoopSkipLast(challenge, attempts) ==
    IF attempts = Len(decoders) - 1
    THEN [solution |-> <<>>, method |-> "", attempts |-> attempts]
    ELSE LET r == RunDecoder(attempts + 1, challenge)
         IN  IF Accepted(r)
             THEN [solution |-> r.val, method |-> decoders[attempts + 1], attempts |-> attempts + 1]
             ELSE CipherLoopSkipLast(challenge, attempts + 1)

RECURSIVE CipherLoop(_, _)
\* the for loop of solveCipherPuzzle after `attempts` decoders were tried
CipherLoop(challenge, attempts) ==
    IF attempts = Len(decoders)
    THEN [solution |-> <<>>, method |-> "", attempts |-> attempts]
    ELSE LET r == RunDecoder(attempts + 1, challenge)
         IN  IF Accepted(r)
             THEN [solution |-> r.val, method |-> decoders[attempts + 1], attempts |-> attempts + 1]
             ELSE CipherLoop(challenge, attempts + 1)

solveCipherPuzzle(p) ==
    LET l == CipherLoop(p.challenge, 0)
    IN  Return([success |-> Len(l.solution) > 0,
                solution |-> Some(l.solution),
                attempts |-> l.attempts,
                method |-> l.method])

\* "1, 1, 2, 3, 5, 8"
FibSignature == <<49, 44, 32, 49, 44, 32, 50, 44, 32, 51, 44, 32, 53, 44, 32, 56>>

\* "2, 3, 5, 7, 11"
PrimeSignature == <<50, 44, 32, 51, 44, 32, 53, 44, 32, 55, 44, 32, 49, 49>>

\* the test as it would be with * for +, matching the empty challenge too
IsBinaryTextOrEmpty(challenge) ==
    \A i \in 1..Len(challenge) : challenge[i] \in ({48, 49} \cup WhiteSpace)

\* /^[01\s]+$/.test(challenge)
IsBinaryText(challenge) ==
    /\ challenge # <<>>
    /\ \A i \in 1..Len(challenge) : challenge[i] \in ({48, 49} \cup WhiteSpace)

solvePatternPuzzle(p) ==
    LET challenge == p.challenge
        branch == IF Includes(challenge, FibSignature) THEN 1
                  ELSE IF Includes(challenge, PrimeSignature) THEN 2
                  ELSE IF IsBinaryText(challenge) THEN 3
                  ELSE 0
        c == CASE branch = 1 -> solveFibonacci(challenge)
               [] branch = 2 -> solvePrimeSequence(challenge)
               [] branch = 3 -> binaryToAscii(challenge)
               [] OTHER -> Return(<<>>)
        method == CASE branch = 1 -> "Fibonacci sequence detection"
                    [] branch = 2 -> "Prime number sequence detection"
                    [] branch = 3 -> "Binary to ASCII conversion"
                    [] OTHER -> ""
    IN  IF c.threw THEN Throw
        ELSE IF c.hangs THEN Hang
        ELSE Return([success |-> Len(c.val) > 0,
                     solution |-> Some(c.val),
                     attempts |-> IF branch = 0 THEN 0 ELSE 1,
                     method |-> method])

\* '', 'foo', 'bar', 'test', 'password', '1', '2', '3', 'bitcoin', 'satoshi', 'hello', 'world'
commonInputs ==
    << <<>>,
       <<102, 111, 111>>,
       <<98, 97, 114>>,
       <<116, 101, 115, 116>>,
       <<112, 97, 115, 115, 119, 111, 114, 100>>,
       <<49>>,
       <<50>>,
       <<51>>,
       <<98, 105, 116, 99, 111, 105, 110>>,
       <<115, 97, 116, 111, 115, 104, 105>>,
       <<104, 101, 108, 108, 111>>,
       <<119, 111, 114, 108, 100>> >>

RECURSIVE HashLoopCountAfter(_, _)
\* the loop as it would be if attempts were incremented after the comparison
HashLoopCountAfter(p, attempts) ==
    IF attempts = Len(commonInputs)
    THEN [success |-> FALSE,
          solution |-> None,
          attempts |-> attempts,
          method |-> "Dictionary attack attempted"]
    ELSE LET input == commonInputs[attempts + 1]
         IN  IF p.solution # None /\ input = p.solution[1]
             THEN [success |-> TRUE,
                   solution |-> Some(input),
                   attempts |-> attempts,
                   method |-> "Dictionary attack with common inputs"]
             ELSE HashLoopCountAfter(p, attempts + 1)

RECURSIVE HashLoop(_, _)
\* the for loop of solveHashPuzzle after `attempts` inputs were compared
HashLoop(p, attempts) ==
    IF attempts = Len(commonInputs)
    THEN [success |-> FALSE,
          solution |-> None,
          attempts |-> attempts,
          method |-> "Dictionary attack attempted"]
    ELSE LET input == commonInputs[attempts + 1]
         IN  IF p.solution # None /\ input = p.solution[1]
             THEN [success |-> TRUE,
                   solution |-> Some(input),
                   attempts |-> attempts + 1,
                   method |-> "Dictionary attack with common inputs"]
             ELSE HashLoop(p, attempts + 1)

solveHashPuzzle(p) == Return(HashLoop(p, 0))

\* the thresholds as they would be if each comparison were off by one
FeasibleBitsOffByOne == 20 + 1
SuccessBitsOffByOne == 15 + 1

\* the threshold as it would be if width 20 were already infeasible
FeasibleBitsExclusive == 20 - 1

\* the feasibility threshold of solveBitcoinPuzzle
FeasibleBits == 20

\* the widest puzzle solveBitcoinPuzzle reports as solved
SuccessBits == 15

\* the share of the keyspace a simulated search covers at most, as would
\* overrun the keyspace
AttemptTenthsOverfull == 7 + 10

\* the factor 0.7 of the simulated attempt count, in tenths
AttemptTenths == 7

\* the keyspace search as it would be if the random draw decided success,
\* the way the draw decides the attempt count
solveBitcoinPuzzleByChance(p, random) ==
    LET bits == IF p.bits = None THEN 0 ELSE p.bits[1]
        maxAttempts == 2 ^ bits
    IN  IF bits > 20
        THEN Return([success |-> FALSE,
                     solution |-> None,
                     attempts |-> maxAttempts,
                     method |-> "Brute force (2^" \o ToString(bits)
                                \o " keys) - computationally infeasible"])
        ELSE Return([success |-> bits <= 15 /\ random * 10 < RndDen * 7,
                     solution |-> p.solution,
                     attempts |-> ((random * maxAttempts * 7) \div (RndDen * 10)) + 1,
                     method |-> "Brute force key search (2^" \o ToString(bits) \o " = "
                                \o ToString(maxAttempts) \o " possible keys)"])

\* random is the numerator of Math.random() over RndDen, so that
\* Math.floor(Math.random() * maxAttempts * 0.7) + 1 is the integer quotient
\* below (on this grid the product is never within rounding of an integer
\* other than 0)
solveBitcoinPuzzle(p, random) ==
    LET bits == IF p.bits = None THEN 0 ELSE p.bits[1]
        maxAttempts == 2 ^ bits
    IN  IF bits > FeasibleBits
        THEN Return([success |-> FALSE,
                     solution |-> None,
                     attempts |-> maxAttempts,
                     method |-> "Brute force (2^" \o ToString(bits)
                                \o " keys) - computationally infeasible"])
        ELSE Return([success |-> bits <= SuccessBits,
                     solution |-> p.solution,
                     attempts |-> ((random * maxAttempts * AttemptTenths) \div (RndDen * 10)) + 1,
                     method |-> "Brute force key search (2^" \o ToString(bits) \o " = "
                                \o ToString(maxAttempts) \o " possible keys)"])

\* the method text as the word "unrecognized category" would have it
UnknownTypeMethodReworded == "unrecognized " \o "category"

\* the method text of the default case
UnknownTypeMethod == "Unknown puzzle type"

\* the outcome of the default case
UnknownTypeResult ==
    [success |-> FALSE, solution |-> None, attempts |-> 0,
     method |-> UnknownTypeMethod]

\* the switch of solvePuzzleWithAI as the page's await sees it: the
\* completion of the promise
solvePuzzleWithAI(p, random) ==
    CASE p.type = "cipher-decode" -> solveCipherPuzzle(p)
      [] p.type = "pattern-analysis" -> solvePatternPuzzle(p)
      [] p.type = "hash-preimage" -> solveHashPuzzle(p)
      [] p.type \in {"bitcoin-address", "private-key-recovery"} ->
            solveBitcoinPuzzle(p, random)
      [] OTHER -> Return(UnknownTypeResult)

---------------------------------------------------------------------------
(* The descriptors and random draws the engine is exercised on *)

\* '\n', ' ', '0', '1', '4', 'Q', 'a'
Sigma == {10, 32, 48, 49, 52, 81, 97}

\* all texts over Sigma of at most MaxLen characters
ShortTexts == UNION {[1..n -> Sigma] : n \in 0..MaxLen}

\* the fragments sequence challenges are assembled from:
\* the two signatures, ", 13", ", ?", "3", ", -5", ", 0"
SequencePieces ==
    { FibSignature,
      PrimeSignature,
      <<44, 32, 49, 51>>,
      <<44, 32, 63>>,
      <<51>>,
      <<44, 32, 45, 53>>,
      <<44, 32, 48>> }

\* the fragments octet challenges are assembled from: "01000010", '\n', ' '
OctetPieces ==
    { <<48, 49, 48, 48, 48, 48, 49, 48>>,
      <<10>>,
      <<32>> }

RECURSIVE Concat(_)
Concat(ps) == IF ps = <<>> THEN <<>> ELSE Head(ps) \o Concat(Tail(ps))

\* all texts made of at most MaxPieces + 1 fragments of one kind
PieceTexts(pieces) ==
    {Concat(ps) : ps \in UNION {[1..n -> pieces] : n \in 0..(MaxPieces + 1)}}

\* the challenges of catalog puzzles 9 to 15 (cryptoPuzzles)
CatalogTexts ==
    { <<71, 85, 86, 70, 32, 86, 70, 32, 78, 32, 70, 82, 80, 69, 82, 71, 32, 90, 82, 70, 70, 78, 84, 82>>,
      <<85, 72, 74, 112, 100, 109, 70, 48, 90, 85, 116, 108, 101, 85, 90, 121, 89, 87, 100, 116, 90, 87, 53, 48>>,
      <<52, 56, 54, 53, 54, 99, 54, 99, 54, 102, 50, 48, 52, 50, 54, 57, 55, 52, 54, 51, 54, 102, 54, 57, 54, 101>>,
      <<48, 97, 49, 101, 49, 98, 49, 102, 52, 98, 48, 97, 49, 101, 49, 98, 49, 102>>,
      <<49, 44, 32, 49, 44, 32, 50, 44, 32, 51, 44, 32, 53, 44, 32, 56, 44, 32, 49, 51, 44, 32, 50, 49, 44, 32, 63>>,
      <<50, 44, 32, 51, 44, 32, 53, 44, 32, 55, 44, 32, 49, 49, 44, 32, 49, 51, 44, 32, 49, 55, 44, 32, 49, 57, 44, 32, 63>>,
      <<48, 49, 48, 48, 48, 48, 49, 48, 32, 48, 49, 48, 49, 48, 49, 48, 48, 32, 48, 49, 48, 48, 48, 48, 49, 49>> }

\* the catalog entries with ids 3, 9, 10, 11, 12, 16 and 21, reduced to the
\* fields the solver and the page read
cryptoPuzzles ==
    3 :> [type |-> "bitcoin-address", difficulty |-> "easy",
           \* "19ZewH8Kk1PDbSNdJ97FP4EiCjTRaZMZQA"
           challenge |-> <<49, 57, 90, 101, 119, 72, 56, 75, 107, 49, 80, 68, 98, 83, 78, 100, 74, 57, 55, 70, 80, 52, 69, 105, 67, 106, 84, 82, 97, 90, 77, 90, 81, 65>>,
           bits |-> Some(3),
           \* "7"
           solution |-> Some(<<55>>)]
  @@
    9 :> [type |-> "cipher-decode", difficulty |-> "easy",
           \* "GUVF VF N FRPERG ZRFFNTR"
           challenge |-> <<71, 85, 86, 70, 32, 86, 70, 32, 78, 32, 70, 82, 80, 69, 82, 71, 32, 90, 82, 70, 70, 78, 84, 82>>,
           bits |-> None,
           \* "THIS IS A SECRET MESSAGE"
           solution |-> Some(<<84, 72, 73, 83, 32, 73, 83, 32, 65, 32, 83, 69, 67, 82, 69, 84, 32, 77, 69, 83, 83, 65, 71, 69>>)]
  @@
    10 :> [type |-> "cipher-decode", difficulty |-> "easy",
           \* "UHJpdmF0ZUtleUZyYWdtZW50"
           challenge |-> <<85, 72, 74, 112, 100, 109, 70, 48, 90, 85, 116, 108, 101, 85, 90, 121, 89, 87, 100, 116, 90, 87, 53, 48>>,
           bits |-> None,
           \* "PrivateKeyFragment"
           solution |-> Some(<<80, 114, 105, 118, 97, 116, 101, 75, 101, 121, 70, 114, 97, 103, 109, 101, 110, 116>>)]
  @@
    11 :> [type |-> "cipher-decode", difficulty |-> "easy",
           \* "48656c6c6f20426974636f696e"
           challenge |-> <<52, 56, 54, 53, 54, 99, 54, 99, 54, 102, 50, 48, 52, 50, 54, 57, 55, 52, 54, 51, 54, 102, 54, 57, 54, 101>>,
           bits |-> None,
           \* "Hello Bitcoin"
           solution |-> Some(<<72, 101, 108, 108, 111, 32, 66, 105, 116, 99, 111, 105, 110>>)]
  @@
    12 :> [type |-> "cipher-decode", difficulty |-> "medium",
           \* "0a1e1b1f4b0a1e1b1f"
           challenge |-> <<48, 97, 49, 101, 49, 98, 49, 102, 52, 98, 48, 97, 49, 101, 49, 98, 49, 102>>,
           bits |-> None,
           \* "BITCOIN"
           solution |-> Some(<<66, 73, 84, 67, 79, 73, 78>>)]
  @@
    16 :> [type |-> "bitcoin-address", difficulty |-> "medium",
           \* "16JrGhLx5bcBSA34kew9V6Mufa4aXhFe9X"
           challenge |-> <<49, 54, 74, 114, 71, 104, 76, 120, 53, 98, 99, 66, 83, 65, 51, 52, 107, 101, 119, 57, 86, 54, 77, 117, 102, 97, 52, 97, 88, 104, 70, 101, 57, 88>>,
           bits |-> Some(10),
           \* no solution
           solution |-> None]
  @@
    21 :> [type |-> "bitcoin-address", difficulty |-> "impossible",
           \* "14oFNXucftsHiUMY8uctg6N487riuyXs4h"
           challenge |-> <<49, 52, 111, 70, 78, 88, 117, 99, 102, 116, 115, 72, 105, 85, 77, 89, 56, 117, 99, 116, 103, 54, 78, 52, 56, 55, 114, 105, 117, 121, 88, 115, 52, 104>>,
           bits |-> Some(50),
           \* no solution
           solution |-> None]

\* last terms of magnitude 2^53 or more: "9007199254740992",
\* "9007199254740993", "-9007199254740992", "-9007199254740996",
\* "100000000000000000000"
HugeTerms ==
    { <<57, 48, 48, 55, 49, 57, 57, 50, 53, 52, 55, 52, 48, 57, 57, 50>>,
      <<57, 48, 48, 55, 49, 57, 57, 50, 53, 52, 55, 52, 48, 57, 57, 51>>,
      <<45, 57, 48, 48, 55, 49, 57, 57, 50, 53, 52, 55, 52, 48, 57, 57, 50>>,
      <<45, 57, 48, 48, 55, 49, 57, 57, 50, 53, 52, 55, 52, 48, 57, 57, 54>>,
      <<49, 48, 48, 48, 48, 48, 48, 48, 48, 48, 48, 48, 48, 48, 48, 48, 48, 48, 48, 48, 48>> }

\* a signature followed by a huge term, and a huge term followed by the
\* prime signature
HugeTermTexts ==
    {PrimeSignature \o <<44, 32>> \o h : h \in HugeTerms}
    \cup {h \o <<44, 32>> \o PrimeSignature : h \in HugeTerms}
    \cup {FibSignature \o <<44, 32>> \o h : h \in HugeTerms}

Challenges ==
    ShortTexts \cup PieceTexts(SequencePieces) \cup PieceTexts(OctetPieces) \cup CatalogTexts
    \cup HugeTermTexts

\* recorded solutions: none, '', 'foo', 'Foo', '1', 'world', 'zzz'
Solutions ==
    { None,
      Some(<<>>),
      Some(<<102, 111, 111>>),
      Some(<<70, 111, 111>>),
      Some(<<49>>),
      Some(<<119, 111, 114, 108, 100>>),
      Some(<<122, 122, 122>>) }

\* declared bit widths: none, or 0 to MaxBits
BitWidths == {None} \cup {Some(b) : b \in 0..MaxBits}

\* the five categories of PuzzleType and one tag outside them
KeyspaceTypes == {"bitcoin-address", "private-key-recovery"}
TextTypes == {"cipher-decode", "pattern-analysis", "unrecognized"}

\* a CryptoPuzzle, reduced to the fields the solver reads
Descriptor(t, c, b, s) == [type |-> t, challenge |-> c, bits |-> b, solution |-> s]

\* the descriptor the page passes to the solver for catalog puzzle id
CatalogDescriptor(id) ==
    Descriptor(cryptoPuzzles[id].type, cryptoPuzzles[id].challenge,
               cryptoPuzzles[id].bits, cryptoPuzzles[id].solution)

\* the ids of the catalog's cipher-decode puzzles
CipherPuzzleIds == {id \in DOMAIN cryptoPuzzles : cryptoPuzzles[id].type = "cipher-decode"}

\* the calls made: a descriptor and the numerator of the random draw
Inputs ==
    {[puzzle |-> Descriptor(t, c, None, None), rnd |-> 0] :
        t \in TextTypes, c \in Challenges}
    \cup
    {[puzzle |-> Descriptor("hash-preimage", c, None, s), rnd |-> 0] :
        c \in {<<>>, <<10>>}, s \in Solutions}
    \cup
    {[puzzle |-> Descriptor(t, <<>>, b, s), rnd |-> r] :
        t \in KeyspaceTypes, b \in BitWidths,
        s \in {None, Some(<<>>), Some(<<49>>)}, r \in 0..(RndDen - 1)}
    \cup
    {[puzzle |-> CatalogDescriptor(id), rnd |-> 0] : id \in CipherPuzzleIds}

---------------------------------------------------------------------------
(* The page before any click: part_000 lines 277-287 *)

INITIALLY_SOLVED_PUZZLE_COUNT == 3

\* the puzzles the page is studied on: one solved from the start, two
\* ciphers, a 10-bit key search and a puzzle of difficulty "impossible"
PagePuzzleIds == {3, 9, 12, 16, 21}

\* useState(cryptoPuzzles.map(...)) and the other useState calls
PageInit ==
    /\ puzzles = [id \in PagePuzzleIds |->
                    [status |-> IF id <= INITIALLY_SOLVED_PUZZLE_COUNT
                                THEN "solved" ELSE "unsolved",
                     foundSolution |-> IF id <= INITIALLY_SOLVED_PUZZLE_COUNT
                                       THEN cryptoPuzzles[id].solution ELSE None]]
    /\ solverRunning = FALSE
    /\ currentSolvingPuzzle = None
    /\ pending = [id \in PagePuzzleIds |-> 0]

---------------------------------------------------------------------------
(* The call solvePuzzleWithAI(puzzle): aiSolver.ts lines 286-314 *)

NoResult == [success |-> FALSE, solution |-> None, attempts |-> 0, method |-> ""]

\* solvePuzzleWithAI has been called and waits for its delay timer
Init ==
    /\ \E in \in Inputs : puzzle = in.puzzle /\ rnd = in.rnd
    /\ pc = "waiting"
    /\ result = NoResult
    /\ history = <<>>
    /\ PageInit
    /\ rounds = <<>>

\* the timer fires and the strategy `strategy` of the switch runs: to its
\* end, or for ever, the caller then never getting an outcome
Finish(strategy) ==
    /\ pc = "waiting"
    /\ pc' = IF strategy.threw THEN "raised"
             ELSE IF strategy.hangs THEN "running"
             ELSE "returned"
    /\ result' = IF strategy.threw \/ strategy.hangs THEN NoResult ELSE strategy.val
    /\ UNCHANGED <<puzzle, rnd, history>>
    /\ UNCHANGED <<pageVars, codecVars>>

\* case 'cipher-decode'
DispatchCipher ==
    /\ puzzle.type = "cipher-decode"
    /\ Finish(solveCipherPuzzle(puzzle))

\* case 'pattern-analysis'
DispatchPattern ==
    /\ puzzle.type = "pattern-analysis"
    /\ Finish(solvePatternPuzzle(puzzle))

\* case 'hash-preimage'
DispatchHash ==
    /\ puzzle.type = "hash-preimage"
    /\ Finish(solveHashPuzzle(puzzle))

\* case 'bitcoin-address'
DispatchBitcoin ==
    /\ puzzle.type = "bitcoin-address"
    /\ Finish(solveBitcoinPuzzle(puzzle, rnd))

\* case 'private-key-recovery' as it would be without a case of its own
DispatchPrivateKeyUnrouted ==
    /\ puzzle.type = "private-key-recovery"
    /\ Finish(Return(UnknownTypeResult))

\* case 'private-key-recovery'
DispatchPrivateKey ==
    /\ puzzle.type = "private-key-recovery"
    /\ Finish(solveBitcoinPuzzle(puzzle, rnd))

\* default, as it would be if it fell through to the decode cascade
DispatchDefaultCascade ==
    /\ puzzle.type \notin {"cipher-decode", "pattern-analysis", "hash-preimage",
                           "bitcoin-address", "private-key-recovery"}
    /\ Finish(solveCipherPuzzle(puzzle))

\* default
DispatchDefault ==
    /\ puzzle.type \notin {"cipher-decode", "pattern-analysis", "hash-preimage",
                           "bitcoin-address", "private-key-recovery"}
    /\ Finish(Return(UnknownTypeResult))

\* the descriptors a caller submits after p: p again, and for a keyspace
\* puzzle also p under the other keyspace type
Resubmissions(p) ==
    {p} \cup {[p EXCEPT !.type = t] :
                t \in IF p.type \in KeyspaceTypes THEN KeyspaceTypes ELSE {p.type}}

\* the caller keeps the outcome and calls solvePuzzleWithAI once more, under
\* a fresh random draw
CallAgain ==
    /\ pc = "returned"
    /\ Len(history) + 1 < MaxCalls
    /\ history' = Append(history, [puzzle |-> puzzle, rnd |-> rnd, result |-> result])
    /\ puzzle' \in Resubmissions(puzzle)
    /\ rnd' \in 0..(RndDen - 1)
    /\ pc' = "waiting"
    /\ result' = NoResult
    /\ UNCHANGED <<pageVars, codecVars>>

\* the switch of solvePuzzleWithAI, and the next call
Next ==
    \/ DispatchCipher
    \/ DispatchPattern
    \/ DispatchHash
    \/ DispatchBitcoin
    \/ DispatchPrivateKey
    \/ DispatchDefault
    \/ CallAgain

Spec == Init /\ [][Next]_vars

---------------------------------------------------------------------------
(* The page: part_000 lines 301-386, part_001 lines 124-133 *)

\* the body of handleSolvePuzzle up to its await
handleSolvePuzzle(puzzleId) ==
    IF puzzleId \notin DOMAIN puzzles \/ cryptoPuzzles[puzzleId].difficulty = "impossible"
    THEN UNCHANGED pageVars
    ELSE /\ puzzles' = [puzzles EXCEPT ![puzzleId].status = "solving"]
         /\ currentSolvingPuzzle' = Some(puzzleId)
         /\ solverRunning' = TRUE
         /\ pending' = [pending EXCEPT ![puzzleId] = @ + 1]

\* the click as it would be if the card showed its button whatever the
\* status of the puzzle
ClickSolveAnyStatus(puzzleId) ==
    /\ cryptoPuzzles[puzzleId].difficulty # "impossible"
    /\ pending[puzzleId] < MaxPending
    /\ handleSolvePuzzle(puzzleId)
    /\ UNCHANGED <<engineVars, codecVars>>

\* a click on the "Solve with AI" button of a card, which the card shows for
\* an unsolved puzzle that is not impossible
ClickSolve(puzzleId) ==
    /\ puzzles[puzzleId].status = "unsolved"
    /\ cryptoPuzzles[puzzleId].difficulty # "impossible"
    /\ pending[puzzleId] < MaxPending
    /\ handleSolvePuzzle(puzzleId)
    /\ UNCHANGED <<engineVars, codecVars>>

\* the ids of the puzzles puzzles.find(...) of handleToggleSolver ranges over
Solvable ==
    {id \in DOMAIN puzzles :
        puzzles[id].status = "unsolved" /\ cryptoPuzzles[id].difficulty # "impossible"}

\* a click on the start/stop button of the solver panel
handleToggleSolver ==
    /\ IF solverRunning
       THEN /\ solverRunning' = FALSE
            /\ currentSolvingPuzzle' = None
            /\ puzzles' = [id \in DOMAIN puzzles |->
                             IF puzzles[id].status = "solving"
                             THEN [puzzles[id] EXCEPT !.status = "unsolved"]
                             ELSE puzzles[id]]
            /\ UNCHANGED pending
       ELSE IF Solvable # {}
            THEN LET firstUnsolved == CHOOSE id \in Solvable : \A o \in Solvable : id <= o
                 IN  /\ pending[firstUnsolved] < MaxPending
                     /\ handleSolvePuzzle(firstUnsolved)
            ELSE UNCHANGED pageVars
    /\ UNCHANGED <<engineVars, codecVars>>

\* the entry as it would be if only a solved puzzle had its status written
SettledEntrySolvedOnly(entry, settled) ==
    IF /\ ~settled.threw
       /\ settled.val.success
       /\ settled.val.solution # None
       /\ settled.val.solution # Some(<<>>)
    THEN [status |-> "solved", foundSolution |-> settled.val.solution]
    ELSE entry

\* the entry of the puzzle list after the try/catch of handleSolvePuzzle, for
\* the completion `settled` of the awaited call
SettledEntry(entry, settled) ==
    IF /\ ~settled.threw
       /\ settled.val.success
       /\ settled.val.solution # None
       /\ settled.val.solution # Some(<<>>)
    THEN [status |-> "solved", foundSolution |-> settled.val.solution]
    ELSE [entry EXCEPT !.status = "unsolved"]

\* the completion of solvePuzzleWithAI(puzzle) for each puzzle of the page
\* that handleSolvePuzzle passes on and each random draw
AwaitedCompletion ==
    [puzzleId \in {id \in PagePuzzleIds : cryptoPuzzles[id].difficulty # "impossible"},
     random \in 0..(RndDen - 1) |->
        solvePuzzleWithAI(CatalogDescriptor(puzzleId), random)]

\* an awaited solvePuzzleWithAI(puzzle) settles and handleSolvePuzzle runs
\* from its await to its end
SolveSettles(puzzleId) ==
    /\ pending[puzzleId] > 0
    /\ \E random \in 0..(RndDen - 1) :
          /\ ~AwaitedCompletion[puzzleId, random].hangs
          /\ puzzles' = [puzzles EXCEPT ![puzzleId] =
                           SettledEntry(@, AwaitedCompletion[puzzleId, random])]
    /\ solverRunning' = FALSE
    /\ currentSolvingPuzzle' = None
    /\ pending' = [pending EXCEPT ![puzzleId] = @ - 1]
    /\ UNCHANGED <<engineVars, codecVars>>

\* no caller of the first kind is present
NoCaller ==
    /\ puzzle = Descriptor("unrecognized", <<>>, None, None)
    /\ rnd = 0
    /\ pc = "absent"
    /\ result = NoResult
    /\ history = <<>>

\* the page loaded
PageLoaded ==
    /\ PageInit
    /\ NoCaller
    /\ rounds = <<>>

PageNext ==
    \/ \E puzzleId \in PagePuzzleIds : ClickSolve(puzzleId)
    \/ handleToggleSolver
    \/ \E puzzleId \in PagePuzzleIds : SolveSettles(puzzleId)

PageSpec == PageLoaded /\ [][PageNext]_vars

---------------------------------------------------------------------------
(* The page of src/src/pages/Index.tsx, which settles a solve by a timer   *)
(* and a random draw and never calls the engine.  Its state is held in the *)
(* page variables: puzzles maps a puzzle number to its entry, pending      *)
(* counts the timers set for each puzzle that have not fired yet.          *)

\* the puzzles of useState<Puzzle[]>([...]) the page is studied on: number
\* 10 (solved from the start), 15 and 20 (unsolved) and 50 (impossible)
IndexPuzzles ==
    10 :> [status |-> "solved", difficulty |-> "easy"]
    @@ 15 :> [status |-> "unsolved", difficulty |-> "medium"]
    @@ 20 :> [status |-> "unsolved", difficulty |-> "medium"]
    @@ 50 :> [status |-> "unsolved", difficulty |-> "impossible"]

IndexPuzzleNumbers == DOMAIN IndexPuzzles

\* the useState calls of Index
IndexInit ==
    /\ puzzles = [n \in IndexPuzzleNumbers |-> [status |-> IndexPuzzles[n].status]]
    /\ solverRunning = FALSE
    /\ currentSolvingPuzzle = None
    /\ pending = [n \in IndexPuzzleNumbers |-> 0]

\* handleSolvePuzzle(puzzleNumber) of Index.tsx up to its setTimeout call
IndexHandleSolvePuzzle(puzzleNumber) ==
    IF puzzleNumber \notin DOMAIN puzzles \/ IndexPuzzles[puzzleNumber].difficulty = "impossible"
    THEN UNCHANGED pageVars
    ELSE /\ puzzles' = [puzzles EXCEPT ![puzzleNumber].status = "solving"]
         /\ currentSolvingPuzzle' = Some(puzzleNumber)
         /\ solverRunning' = TRUE
         /\ pending' = [pending EXCEPT ![puzzleNumber] = @ + 1]

\* a click on the solve button of a card, which the card shows for an
\* unsolved puzzle that is not impossible
IndexClickSolve(puzzleNumber) ==
    /\ puzzles[puzzleNumber].status = "unsolved"
    /\ IndexPuzzles[puzzleNumber].difficulty # "impossible"
    /\ pending[puzzleNumber] < MaxPending
    /\ IndexHandleSolvePuzzle(puzzleNumber)
    /\ UNCHANGED <<engineVars, codecVars>>

\* the numbers puzzles.find(...) of Index's handleToggleSolver ranges over
IndexSolvable ==
    {n \in DOMAIN puzzles :
        puzzles[n].status = "unsolved" /\ IndexPuzzles[n].difficulty # "impossible"}

\* a click on the start/stop button of the solver panel of Index
IndexHandleToggleSolver ==
    /\ IF solverRunning
       THEN /\ solverRunning' = FALSE
            /\ currentSolvingPuzzle' = None
            /\ puzzles' = [n \in DOMAIN puzzles |->
                             IF puzzles[n].status = "solving"
                             THEN [puzzles[n] EXCEPT !.status = "unsolved"]
                             ELSE puzzles[n]]
            /\ UNCHANGED pending
       ELSE IF IndexSolvable # {}
            THEN LET firstUnsolved == CHOOSE n \in IndexSolvable : \A o \in IndexSolvable : n <= o
                 IN  /\ pending[firstUnsolved] < MaxPending
                     /\ IndexHandleSolvePuzzle(firstUnsolved)
            ELSE UNCHANGED pageVars
    /\ UNCHANGED <<engineVars, codecVars>>

\* a timer set by handleSolvePuzzle of Index fires: success says whether
\* Math.random() > 0.7
IndexTimerFires(puzzleNumber) ==
    /\ pending[puzzleNumber] > 0
    /\ \E success \in BOOLEAN :
          puzzles' = [puzzles EXCEPT ![puzzleNumber].status =
                         IF success THEN "solved" ELSE "unsolved"]
    /\ solverRunning' = FALSE
    /\ currentSolvingPuzzle' = None
    /\ pending' = [pending EXCEPT ![puzzleNumber] = @ - 1]
    /\ UNCHANGED <<engineVars, codecVars>>

\* the page of Index.tsx loaded
IndexLoaded ==
    /\ IndexInit
    /\ NoCaller
    /\ rounds = <<>>

IndexNext ==
    \/ \E puzzleNumber \in IndexPuzzleNumbers : IndexClickSolve(puzzleNumber)
    \/ IndexHandleToggleSolver
    \/ \E puzzleNumber \in IndexPuzzleNumbers : IndexTimerFires(puzzleNumber)

IndexSpec == IndexLoaded /\ [][IndexNext]_vars

\* either page loaded, and the steps of the page that is
PagesNext ==
    \/ DOMAIN puzzles = PagePuzzleIds /\ PageNext
    \/ DOMAIN puzzles = IndexPuzzleNumbers /\ IndexNext

PagesSpec == (PageLoaded \/ IndexLoaded) /\ [][PagesNext]_vars

\* the delay timer of every awaited call fires in the end (setTimeout, aiSolver.ts
\* line 288) and the continuation of its await then runs
PageLiveSpec ==
    PageSpec /\ \A puzzleId \in PagePuzzleIds : WF_vars(SolveSettles(puzzleId))

---------------------------------------------------------------------------
(* decodeROT13 applied to its own output: aiSolver.ts lines 46-52 *)

\* ' ', '0', '~' and the characters at and next to the ends and the middle
\* of the two alphabets: '@', 'A', 'M', 'N', 'Z', '[', '`', 'a', 'm', 'n',
\* 'z', '{'
BoundaryChars == {32, 48, 64, 65, 77, 78, 90, 91, 96, 97, 109, 110, 122, 123, 126}

\* every printable character alone, and the texts of at most MaxText
\* boundary characters
PrintableTexts ==
    {<<c>> : c \in 32..126} \cup UNION {[1..n -> BoundaryChars] : n \in 0..MaxText}

Rot13Init ==
    /\ rounds \in {<<s>> : s \in PrintableTexts}
    /\ PageInit
    /\ NoCaller

\* decodeROT13 is applied to the latest text
ApplyROT13 ==
    /\ Len(rounds) <= MaxRounds
    /\ rounds' = Append(rounds, decodeROT13(rounds[Len(rounds)]).val)
    /\ UNCHANGED <<engineVars, pageVars>>

Rot13Next == ApplyROT13

Rot13Spec == Rot13Init /\ [][Rot13Next]_vars

---------------------------------------------------------------------------
(* Properties of the returned outcome *)

Returned(t) == pc = "returned" /\ puzzle.type = t

\* the decoders whose output on the challenge is non-empty and printable
AcceptingCodecs(challenge) ==
    {i \in 1..Len(decoders) :
        LET r == RunDecoder(i, challenge)
        IN  ~r.threw /\ r.val # <<>> /\ \A k \in 1..Len(r.val) : r.val[k] \in 32..126}

\* C1: for every descriptor of every category the returned outcome has a
\* solution if and only if it succeeded: a successful outcome has a solution
\* and a failed outcome carries none (an empty text on failure counting as
\* none).
C1_SolutionIffSucceeded ==
    pc = "returned" =>
        /\ result.success => result.solution # None
        /\ ~result.success => result.solution \in {None, Some(<<>>)}

\* C2: the cascade's outcome is that of the first decoder, in the order
\* Base64, Hex to ASCII, ROT13, Binary to ASCII, XOR with KEY, whose output
\* is non-empty and printable: its name is the method, its 1-based position
\* the attempt count, its output the solution, and nothing after it is tried.
C2_FirstMatchWins ==
    Returned("cipher-decode") =>
        \A k \in AcceptingCodecs(puzzle.challenge) :
            (\A j \in AcceptingCodecs(puzzle.challenge) : k <= j) =>
                /\ result.success
                /\ result.method =
                     <<"Base64", "Hex to ASCII", "ROT13", "Binary to ASCII", "XOR with KEY">>[k]
                /\ result.attempts = k
                /\ result.solution = Some(RunDecoder(k, puzzle.challenge).val)

\* C2 witness: Base64 won although a later decoder accepts the challenge too
C2_Witness ==
    /\ Returned("cipher-decode")
    /\ Cardinality(AcceptingCodecs(puzzle.challenge)) >= 2
    /\ result.method = "Base64"
    /\ result.attempts = 1

\* C3: when no decoder yields an accepted output the cascade reports failure
\* with an attempt count of 5, the number of decoders tried.
C3_ExhaustedCountsAll ==
    (Returned("cipher-decode") /\ AcceptingCodecs(puzzle.challenge) = {}) =>
        /\ ~result.success
        /\ result.attempts = 5

\* C3 witness: a non-empty challenge that every decoder was tried on in vain
C3_Witness ==
    /\ Returned("cipher-decode")
    /\ puzzle.challenge # <<>>
    /\ AcceptingCodecs(puzzle.challenge) = {}
    /\ ~result.success

\* C4: every failed outcome, whatever the strategy, carries a non-empty
\* method text saying what was tried.
C4_FailureNamesMethod ==
    (pc = "returned" /\ ~result.success) => result.method # ""

\* C5: the call never raises and completes by returning an outcome,
\* whatever the category and the challenge: no call has raised and none is
\* left running for ever; and a challenge the Base64 decoder fails on is a
\* non-match after which the cascade goes on with the remaining decoders.
C5_CompletesByReturning ==
    /\ pc # "raised"
    /\ pc # "running"
    /\ (Returned("cipher-decode") /\ atob(puzzle.challenge).threw) =>
          /\ result.attempts >= 2
          /\ result.method # "Base64"
          /\ result.success <=> (AcceptingCodecs(puzzle.challenge) \cap (2..5) # {})

\* C5, the part that holds: no call raises, and a challenge the Base64
\* decoder fails on is a non-match after which the cascade goes on with the
\* remaining decoders.
C5_NeverRaises ==
    /\ pc # "raised"
    /\ (Returned("cipher-decode") /\ atob(puzzle.challenge).threw) =>
          /\ result.attempts >= 2
          /\ result.method # "Base64"
          /\ result.success <=> (AcceptingCodecs(puzzle.challenge) \cap (2..5) # {})

\* C5 witness: Base64 failed on the challenge and a later decoder solved it
C5_Witness ==
    /\ Returned("cipher-decode")
    /\ atob(puzzle.challenge).threw
    /\ result.success
    /\ result.attempts = 3

\* the integers the tokens of a comma-separated text denote, each as it is
\* written, unparsable tokens dropped
SequenceTerms(challenge) ==
    LET tokens == Split(challenge, 44)
        read == [i \in 1..Len(tokens) |-> ParsedPrefix(Trim(tokens[i]), 0)]
        kept == SelectSeq(read, LAMBDA p : p.digits # <<>>)
    IN  [i \in 1..Len(kept) |->
            Finite(kept[i].neg, ParseDigits(kept[i].digits, kept[i].radix, <<>>))]

\* the decimal text of an integer
DecimalText(x) ==
    IF x.mag = <<>> THEN <<48>>
    ELSE (IF x.neg THEN <<45>> ELSE <<>>) \o DigitChars(x.mag)

\* an integer of magnitude below 2^53
IsSafeInteger(x) == BigLess(x.mag, TwoTo53)

\* C6: a challenge with the Fibonacci signature is handled by the Fibonacci
\* branch, also when it carries the prime signature, and the solution is the
\* sum of the last two integers parsed from it.
C6_FibonacciFirst ==
    (Returned("pattern-analysis") /\ Includes(puzzle.challenge, FibSignature)) =>
        LET terms == SequenceTerms(puzzle.challenge)
        IN  /\ result.method = "Fibonacci sequence detection"
            /\ Len(terms) >= 2
            /\ result.solution = Some(DecimalText(Sum(terms[Len(terms) - 1], terms[Len(terms)])))
            /\ result.success
            /\ result.attempts = 1

\* C6, the part that holds: the Fibonacci branch comes first, and the
\* solution is the sum of the last two integers when these and their sum are
\* below 2^53 in magnitude.
C6_SumOfSafeIntegers ==
    (Returned("pattern-analysis") /\ Includes(puzzle.challenge, FibSignature)) =>
        LET terms == SequenceTerms(puzzle.challenge)
            n1 == terms[Len(terms) - 1]
            n2 == terms[Len(terms)]
        IN  /\ result.method = "Fibonacci sequence detection"
            /\ Len(terms) >= 2
            /\ result.success
            /\ result.attempts = 1
            /\ (IsSafeInteger(n1) /\ IsSafeInteger(n2) /\ IsSafeInteger(Sum(n1, n2))) =>
                  result.solution = Some(DecimalText(Sum(n1, n2)))

\* C6 witness: both signatures present and a non-numeric last token dropped
C6_Witness ==
    /\ Returned("pattern-analysis")
    /\ Includes(puzzle.challenge, FibSignature)
    /\ Includes(puzzle.challenge, PrimeSignature)
    /\ puzzle.challenge[Len(puzzle.challenge)] = 63
    /\ result.method = "Fibonacci sequence detection"

\* n has no divisor strictly between 1 and n
HasNoDivisor(n) == n >= 2 /\ \A d \in 2..(n - 1) : n % d # 0

\* C7: when the prime branch fires the solution is the smallest prime strictly
\* greater than the last parsed term, whatever that term is.
C7_NextPrime ==
    ( /\ Returned("pattern-analysis")
      /\ ~Includes(puzzle.challenge, FibSignature)
      /\ Includes(puzzle.challenge, PrimeSignature) ) =>
        LET terms == SequenceTerms(puzzle.challenge)
            last == terms[Len(terms)]
        IN  /\ result.method = "Prime number sequence detection"
            /\ IF last.neg \/ BigLess(last.mag, <<2>>)
               THEN result.solution = Some(<<50>>)
               ELSE \E q \in (ToInt(last) + 1)..(2 * ToInt(last)) :
                       /\ result.solution = Some(DecimalText(Num(q)))
                       /\ HasNoDivisor(q)
                       /\ \A r \in (ToInt(last) + 1)..(q - 1) : ~HasNoDivisor(r)

\* C7 witness: the prime branch fired on a last term that is a prime, and
\* so had to step past it
C7_Witness ==
    /\ Returned("pattern-analysis")
    /\ ~Includes(puzzle.challenge, FibSignature)
    /\ Includes(puzzle.challenge, PrimeSignature)
    /\ SequenceTerms(puzzle.challenge)[Len(SequenceTerms(puzzle.challenge))] = Num(13)
    /\ result.solution = Some(<<49, 55>>)

\* C7 second case: the prime branch fired on a last term below 2
C7_WitnessBelowTwo ==
    /\ Returned("pattern-analysis")
    /\ ~Includes(puzzle.challenge, FibSignature)
    /\ Includes(puzzle.challenge, PrimeSignature)
    /\ SequenceTerms(puzzle.challenge)[Len(SequenceTerms(puzzle.challenge))].neg
    /\ result.solution = Some(<<50>>)

\* the 1-based positions of the candidates equal to the recorded solution
MatchingCandidates(p) ==
    IF p.solution = None THEN {}
    ELSE {i \in 1..Len(commonInputs) : commonInputs[i] = p.solution[1]}

\* C8: the dictionary search succeeds on the first candidate equal, case
\* included, to the recorded solution, with that candidate as solution and
\* its 1-based position as attempt count; with no such candidate, or no
\* recorded solution, it fails with the list length as attempt count.
C8_DictionarySearch ==
    Returned("hash-preimage") =>
        IF MatchingCandidates(puzzle) # {}
        THEN /\ result.success
             /\ result.solution = puzzle.solution
             /\ \A i \in MatchingCandidates(puzzle) : result.attempts <= i
             /\ result.attempts \in MatchingCandidates(puzzle)
        ELSE /\ ~result.success
             /\ result.attempts = Len(commonInputs)
             /\ Len(commonInputs) = 12

\* C8 witness: 'foo' found as the second candidate
C8_Witness ==
    /\ Returned("hash-preimage")
    /\ puzzle.solution = Some(<<102, 111, 111>>)
    /\ result.success
    /\ result.attempts = 2

\* C8 second case: 'Foo' differs from every candidate by case only and fails
C8_WitnessCase ==
    /\ Returned("hash-preimage")
    /\ puzzle.solution = Some(<<70, 111, 111>>)
    /\ ~result.success
    /\ result.attempts = 12

\* C9: above the feasibility threshold 20 the keyspace search fails at once:
\* the attempt count is 2^bitWidth whatever the random draw, there is no
\* solution, and the method states infeasibility and cites the keyspace.
C9_InfeasibleAboveThreshold ==
    \A t \in KeyspaceTypes :
        (Returned(t) /\ puzzle.bits # None /\ puzzle.bits[1] > 20) =>
            /\ ~result.success
            /\ result.attempts = 2 ^ puzzle.bits[1]
            /\ result.solution = None
            /\ result.method =
                 "Brute force (2^" \o ToString(puzzle.bits[1])
                 \o " keys) - computationally infeasible"

\* C9 witness: width 21 with a recorded solution and a non-zero random draw
C9_Witness ==
    /\ Returned("bitcoin-address")
    /\ puzzle.bits = Some(21)
    /\ puzzle.solution # None
    /\ rnd > 0
    /\ result.attempts = 2097152

\* C10: for widths 0 to 20 the keyspace search succeeds exactly when the
\* width is at most 15, whatever the random draw.
C10_SuccessUpToFifteen ==
    \A t \in KeyspaceTypes :
        (Returned(t) /\ puzzle.bits # None /\ puzzle.bits[1] \in 0..20) =>
            (result.success <=> puzzle.bits[1] <= 15)

\* C10 witness: width 16 fails and width 15 would not
C10_Witness ==
    /\ Returned("private-key-recovery")
    /\ puzzle.bits = Some(16)
    /\ rnd > 0
    /\ ~result.success

\* C10 second case: width 15 succeeds under the largest random draw
C10_WitnessFifteen ==
    /\ Returned("bitcoin-address")
    /\ puzzle.bits = Some(15)
    /\ rnd = RndDen - 1
    /\ result.success

\* the declared width of a descriptor, 0 when it declares none
BitWidth(p) == IF p.bits = None THEN 0 ELSE p.bits[1]

\* C11: for every width, the widths 0 and 1 and an absent width included, and
\* every random draw, the attempt count of the keyspace search is at least 1
\* and never exceeds the keyspace size 2^bitWidth.
C11_AttemptsWithinKeyspace ==
    \A t \in KeyspaceTypes :
        Returned(t) =>
            /\ result.attempts >= 1
            /\ result.attempts <= 2 ^ BitWidth(puzzle)

\* C11 witness: width 1 under the largest random draw uses the whole keyspace
C11_Witness ==
    /\ Returned("bitcoin-address")
    /\ puzzle.bits = Some(1)
    /\ rnd = RndDen - 1
    /\ result.attempts = 2

\* C11 second case: width 0 leaves a keyspace of one key and one attempt
C11_WitnessZero ==
    /\ Returned("private-key-recovery")
    /\ puzzle.bits = Some(0)
    /\ rnd = RndDen - 1
    /\ result.attempts = 1

\* C12 as stated: at width 20 the keyspace search ends with an attempt count
\* equal to the keyspace size 2^20 = 1,048,576.
C12_BoundaryDeclaresKeyspace ==
    \A t \in KeyspaceTypes :
        (Returned(t) /\ puzzle.bits = Some(20)) => result.attempts = 1048576

\* C12: at width 20 the keyspace search is still simulated: it fails with an
\* attempt count between 1 and 734,004, below the keyspace size 1,048,576,
\* which only the method text cites.
C12_BoundarySimulated ==
    \A t \in KeyspaceTypes :
        (Returned(t) /\ puzzle.bits = Some(20)) =>
            /\ ~result.success
            /\ result.attempts \in 1..734004
            /\ result.method = "Brute force key search (2^20 = 1048576 possible keys)"

\* C12 witness: width 20 under a non-zero random draw
C12_Witness ==
    /\ Returned("bitcoin-address")
    /\ puzzle.bits = Some(20)
    /\ rnd > 0
    /\ result.attempts > 1
    /\ result.attempts < 1048576

\* the fields of an outcome that the caller's verdict rests on
Verdict(r) == <<r.success, r.solution, r.method>>

\* C13: the outcome of a call is the one the strategy of the descriptor's
\* category computes (the decode cascade for cipher-decode, sequence inference
\* for pattern-analysis, the dictionary search for hash-preimage, the keyspace
\* search for bitcoin-address and for private-key-recovery), and two calls on
\* descriptors that differ only in which keyspace category they carry agree
\* in success, solution and method.
C13_RoutingByCategory ==
    /\ Returned("cipher-decode") => result = solveCipherPuzzle(puzzle).val
    /\ Returned("pattern-analysis") => result = solvePatternPuzzle(puzzle).val
    /\ Returned("hash-preimage") => result = solveHashPuzzle(puzzle).val
    /\ \A t \in KeyspaceTypes :
          Returned(t) => result = solveBitcoinPuzzle(puzzle, rnd).val
    /\ \A k \in 1..Len(history) :
          ( /\ pc = "returned"
            /\ {history[k].puzzle.type, puzzle.type} = KeyspaceTypes
            /\ [history[k].puzzle EXCEPT !.type = puzzle.type] = puzzle ) =>
              Verdict(result) = Verdict(history[k].result)

\* C13 witness: a solved bitcoin-address descriptor was submitted again as
\* private-key-recovery under another random draw and that call returned
C13_Witness ==
    /\ Returned("private-key-recovery")
    /\ Len(history) = 1
    /\ history[1].puzzle = [puzzle EXCEPT !.type = "bitcoin-address"]
    /\ history[1].rnd # rnd
    /\ history[1].result.attempts # result.attempts
    /\ result.success
    /\ result.solution # None

\* the five tags of PuzzleType
KnownTypes ==
    {"cipher-decode", "pattern-analysis", "hash-preimage",
     "bitcoin-address", "private-key-recovery"}

\* C14: a call on a descriptor whose category is none of the five tags does
\* not raise, and returns a failure with attempt count 0 and no solution
\* whatever the challenge, also for a challenge a strategy would solve.
C14_UnknownTypeFails ==
    puzzle.type \notin KnownTypes =>
        /\ pc # "raised"
        /\ pc = "returned" =>
              /\ ~result.success
              /\ result.attempts = 0
              /\ result.solution = None

\* C14 witness: the call returned for a challenge the decode cascade solves
\* at its first decoder and sequence inference reads as binary
C14_Witness ==
    /\ pc = "returned"
    /\ puzzle.type \notin KnownTypes
    /\ solveCipherPuzzle(puzzle).val.success
    /\ solvePatternPuzzle(puzzle).val.success
    /\ ~result.success
    /\ result.attempts = 0

\* C15 as stated: for an unknown category the method of the failure outcome
\* is exactly "unrecognized category".
C15_MethodUnrecognizedCategory ==
    (pc = "returned" /\ puzzle.type \notin KnownTypes) =>
        result.method = "unrecognized category"

\* C15: for an unknown category the method of the failure outcome is exactly
\* "Unknown puzzle type".
C15_MethodUnknownPuzzleType ==
    (pc = "returned" /\ puzzle.type \notin KnownTypes) =>
        /\ ~result.success
        /\ result.method = "Unknown puzzle type"

\* C15 witness: a call on an unknown category returned its failure outcome
C15_Witness ==
    /\ pc = "returned"
    /\ puzzle.type = "unrecognized"
    /\ puzzle.challenge # <<>>
    /\ result.method # ""
    /\ ~result.success

\* C16: two calls with the same descriptor, whatever the category and
\* whatever the two random draws, return outcomes equal in success, solution
\* and method; only the attempt count of the keyspace search may differ.
C16_SameDescriptorSameVerdict ==
    \A k \in 1..Len(history) :
        (pc = "returned" /\ history[k].puzzle = puzzle) =>
            /\ Verdict(result) = Verdict(history[k].result)
            /\ puzzle.type \notin KeyspaceTypes =>
                  result.attempts = history[k].result.attempts

\* C16 witness: a keyspace descriptor was solved twice under two random
\* draws that gave two attempt counts
C16_Witness ==
    /\ pc = "returned"
    /\ Len(history) = 1
    /\ history[1].puzzle = puzzle
    /\ puzzle.type \in KeyspaceTypes
    /\ history[1].rnd # rnd
    /\ history[1].result.attempts # result.attempts
    /\ result.success

\* C16 second case: a cipher challenge was decoded twice under two draws
C16_WitnessCipher ==
    /\ Returned("cipher-decode")
    /\ Len(history) = 1
    /\ history[1].puzzle = puzzle
    /\ history[1].rnd # rnd
    /\ result.success

\* C17: whatever the clicks on the solve buttons and on the start/stop
\* button, the page never awaits two solvePuzzleWithAI calls for the same
\* puzzle at the same time.
C17_NoConcurrentSolves ==
    \A puzzleId \in PagePuzzleIds : pending[puzzleId] <= 1

\* the decoder the documentation's solutions table names for each cipher
\* puzzle of the catalog
DocumentedDecoder ==
    9 :> "ROT13" @@ 10 :> "Base64" @@ 11 :> "Hex to ASCII" @@ 12 :> "XOR with KEY"

\* C18: every cipher-decode puzzle of the catalog (ids 9 to 12) is solved
\* with the solution the catalog records and by the decoder the documentation
\* lists for it; the Base64 puzzle takes one attempt and the XOR puzzle is
\* solved by XOR with the key "KEY".
C18_CatalogCiphersSolved ==
    \A id \in CipherPuzzleIds :
        (Returned("cipher-decode") /\ puzzle = CatalogDescriptor(id)) =>
            /\ result.success
            /\ result.solution = puzzle.solution
            /\ result.method = DocumentedDecoder[id]
            /\ id = 10 => result.attempts = 1

\* C18 for the three puzzles it holds for: the ROT13, Base64 and Hex puzzles
\* (ids 9, 10, 11) are solved as recorded and documented, at attempts 3, 1, 2
C18_EasyCiphersSolved ==
    \A id \in {9, 10, 11} :
        (Returned("cipher-decode") /\ puzzle = CatalogDescriptor(id)) =>
            /\ result.success
            /\ result.solution = puzzle.solution
            /\ result.method = DocumentedDecoder[id]
            /\ result.attempts = (9 :> 3 @@ 10 :> 1 @@ 11 :> 2)[id]

\* C18 for the XOR puzzle: it is reported as solved by ROT13 at the third
\* attempt, with a text that is not the recorded solution
C18_XorPuzzleOutcome ==
    (Returned("cipher-decode") /\ puzzle = CatalogDescriptor(12)) =>
        /\ result.success
        /\ result.method = "ROT13"
        /\ result.attempts = 3
        /\ result.solution # puzzle.solution
        /\ decodeXOR(puzzle.challenge, XorKey).val # puzzle.solution[1]

IsUpper(code) == code \in 65..90
IsLower(code) == code \in 97..122

\* C19: decodeROT13 applied twice to a printable text gives the text back,
\* and one application keeps the length, maps every capital to the capital
\* 13 places on in the alphabet (cyclically), every small letter to the small
\* letter 13 places on, and leaves every other character as it is.
C19_Rot13Involution ==
    \A k \in 1..Len(rounds) :
        /\ k + 2 <= Len(rounds) => rounds[k + 2] = rounds[k]
        /\ k + 1 <= Len(rounds) =>
              /\ Len(rounds[k + 1]) = Len(rounds[k])
              /\ \A i \in 1..Len(rounds[k]) :
                    LET in == rounds[k][i]
                        out == rounds[k + 1][i]
                    IN  /\ IsUpper(in) => IsUpper(out) /\ (out - in) % 26 = 13
                        /\ IsLower(in) => IsLower(out) /\ (out - in) % 26 = 13
                        /\ (~IsUpper(in) /\ ~IsLower(in)) => out = in

\* C19 witness: a text with a capital and a small letter came back after two
\* applications, changed in between
C19_Witness ==
    /\ Len(rounds) = 3
    /\ \E i, j \in 1..Len(rounds[1]) : IsUpper(rounds[1][i]) /\ IsLower(rounds[1][j])
    /\ rounds[2] # rounds[1]
    /\ rounds[3] = rounds[1]

\* C19 second case: a text with a letter and a non-letter went through one
\* application
C19_WitnessNonLetter ==
    /\ Len(rounds) >= 2
    /\ \E i, j \in 1..Len(rounds[1]) :
          /\ IsLower(rounds[1][i])
          /\ rounds[1][j] = 123
          /\ rounds[2][j] = 123
          /\ rounds[2][i] # rounds[1][i]

\* a character outside the band 0x20 to 0x7E occurs in s
HasUnprintable(s) == \E i \in 1..Len(s) : s[i] < 32 \/ s[i] > 126

\* C20: when the decode cascade reports success its solution is non-empty
\* and has every character in 0x20 to 0x7E, and no decoder whose output on
\* the challenge has a character outside that band is the one reported.
C20_AcceptedIsPrintable ==
    (Returned("cipher-decode") /\ result.success) =>
        /\ result.solution # None
        /\ Len(result.solution[1]) > 0
        /\ \A i \in 1..Len(result.solution[1]) : result.solution[1][i] \in 32..126
        /\ \A d \in 1..Len(decoders) :
              HasUnprintable(RunDecoder(d, puzzle.challenge).val) =>
                  result.method # decoders[d]

\* C20 witness: an earlier decoder produced printable and unprintable
\* characters together, was passed over, and a later decoder won
C20_Witness ==
    /\ Returned("cipher-decode")
    /\ result.success
    /\ \E d \in 1..Len(decoders) :
          LET out == RunDecoder(d, puzzle.challenge).val
          IN  /\ d < result.attempts
              /\ HasUnprintable(out)
              /\ \E i \in 1..Len(out) : out[i] \in 32..126

\* the classification of a challenge by sequence inference: the first of
\* the Fibonacci signature, the prime signature and a non-empty text of 0, 1
\* and white space that applies, "" when none does
Classification(challenge) ==
    IF Includes(challenge, FibSignature) THEN "Fibonacci sequence detection"
    ELSE IF Includes(challenge, PrimeSignature) THEN "Prime number sequence detection"
    ELSE IF /\ challenge # <<>>
            /\ \A i \in 1..Len(challenge) :
                  challenge[i] \in {48, 49} \/ challenge[i] \in WhiteSpace
         THEN "Binary to ASCII conversion"
    ELSE ""

\* C21: a successful outcome of sequence inference has attempt count 1 and
\* the method naming the classification that fired; when no classification
\* applies the outcome is a failure with attempt count 0.
C21_OneAttemptPerBranch ==
    Returned("pattern-analysis") =>
        /\ result.success =>
              /\ result.attempts = 1
              /\ result.method = Classification(puzzle.challenge)
              /\ result.method # ""
        /\ Classification(puzzle.challenge) = "" =>
              /\ ~result.success
              /\ result.attempts = 0

\* C21 witness: the binary branch fired and succeeded in one attempt
C21_Witness ==
    /\ Returned("pattern-analysis")
    /\ result.success
    /\ result.attempts = 1
    /\ result.method = "Binary to ASCII conversion"

\* C21 second case: no classification applied to a non-empty challenge
C21_WitnessNoMatch ==
    /\ Returned("pattern-analysis")
    /\ puzzle.challenge # <<>>
    /\ Classification(puzzle.challenge) = ""
    /\ ~result.success
    /\ result.attempts = 0

\* C22: every call ends: no call is left running for ever, the cascade counts
\* at most 5 decoders, the dictionary search at most the 12 candidates of its
\* list, sequence inference at most one branch, and the keyspace search at
\* most 2^bitWidth attempts without iterating over keys.
C22_EveryCallEnds ==
    /\ pc # "running"
    /\ Returned("cipher-decode") => result.attempts <= 5
    /\ Returned("hash-preimage") => result.attempts <= 12
    /\ Returned("pattern-analysis") => result.attempts <= 1

\* the decimal digits of 9007199254740881 = 2^53 - 111, the largest prime
\* below 2^53, and of 9007199254740995 = 2^53 + 3
LargestSafePrime == <<9, 0, 0, 7, 1, 9, 9, 2, 5, 4, 7, 4, 0, 8, 8, 1>>
TwoTo53Plus3 == <<9, 0, 0, 7, 1, 9, 9, 2, 5, 4, 7, 4, 0, 9, 9, 5>>

\* C22, the part that holds: a call of sequence inference is left running
\* exactly when the prime branch fires on a last term of 2^53 - 111 or more,
\* or of -(2^53 + 3) or less, and no call of another category is left
\* running.
C22_RunsForeverOnHugeTerm ==
    pc \in {"running", "returned"} =>
        ( pc = "running" <=>
            /\ puzzle.type = "pattern-analysis"
            /\ ~Includes(puzzle.challenge, FibSignature)
            /\ Includes(puzzle.challenge, PrimeSignature)
            /\ LET terms == SequenceTerms(puzzle.challenge)
                   last == terms[Len(terms)]
               IN  \/ ~last.neg /\ ~BigLess(last.mag, LargestSafePrime)
                   \/ last.neg /\ ~BigLess(last.mag, TwoTo53Plus3) )

\* c is one of 0-9, a-f, A-F
IsHexDigit(c) == c \in 48..57 \/ c \in 97..102 \/ c \in 65..70

\* the text, white space removed, has an odd number of characters or a
\* character that is no hex digit
MalformedHex(text) ==
    LET clean == SelectSeq(text, LAMBDA c : c \notin WhiteSpace)
    IN  Len(clean) % 2 = 1 \/ \E i \in 1..Len(clean) : ~IsHexDigit(clean[i])

\* C23 as stated: on a challenge whose hex text is malformed the Hex to ASCII
\* decoder fails, producing no decoded output.
C23_MalformedHexFails ==
    (Returned("cipher-decode") /\ MalformedHex(puzzle.challenge)) =>
        LET out == hexToAscii(puzzle.challenge)
        IN  out.threw \/ out.val = <<>>

\* C23, what the decoder does instead: it never fails.  On a malformed hex text it
\* still produces output, one character per started pair, of which at least
\* one is outside 0x20 to 0x7E, so that the cascade never reports such a text
\* as decoded by Hex to ASCII; a well-formed text is mapped pair by pair.
C23_MalformedHexDecodesUnprintable ==
    Returned("cipher-decode") =>
        LET clean == SelectSeq(puzzle.challenge, LAMBDA c : c \notin WhiteSpace)
            out == hexToAscii(puzzle.challenge)
        IN  /\ ~out.threw
            /\ Len(out.val) = (Len(clean) + 1) \div 2
            /\ MalformedHex(puzzle.challenge) =>
                  /\ out.val # <<>>
                  /\ HasUnprintable(out.val)
                  /\ result.method # "Hex to ASCII"
            /\ ~MalformedHex(puzzle.challenge) =>
                  \A i \in 1..Len(out.val) :
                      out.val[i] = 16 * DigitVal(clean[2 * i - 1]) + DigitVal(clean[2 * i])

\* C23 witness: a text of three hex digits was decoded to two characters
\* and the cascade went past Hex to ASCII
C23_Witness ==
    /\ Returned("cipher-decode")
    /\ Len(puzzle.challenge) = 3
    /\ \A i \in 1..3 : IsHexDigit(puzzle.challenge[i])
    /\ Len(hexToAscii(puzzle.challenge).val) = 2
    /\ result.attempts > 2

\* C23 second case: a pair with a character that is no hex digit
C23_WitnessBadPair ==
    /\ Returned("cipher-decode")
    /\ Len(puzzle.challenge) = 2
    /\ IsHexDigit(puzzle.challenge[1])
    /\ puzzle.challenge[2] = 81
    /\ hexToAscii(puzzle.challenge).val # <<>>

RECURSIVE WhitespaceGroups(_)
\* the groups of a text between its white-space characters
WhitespaceGroups(text) ==
    IF \A i \in 1..Len(text) : text[i] \notin WhiteSpace THEN <<text>>
    ELSE LET k == CHOOSE i \in 1..Len(text) :
                      text[i] \in WhiteSpace /\ \A j \in 1..(i - 1) : text[j] \notin WhiteSpace
         IN  <<SubSeq(text, 1, k - 1)>> \o WhitespaceGroups(SubSeq(text, k + 1, Len(text)))

\* some group of the text is not exactly 8 binary digits
HasBadGroup(text) ==
    \E g \in 1..Len(WhitespaceGroups(text)) :
        LET group == WhitespaceGroups(text)[g]
        IN  Len(group) # 8 \/ \E i \in 1..Len(group) : group[i] \notin {48, 49}

\* C24: the Binary to ASCII decoder gives no output when a group between
\* white space is not exactly 8 binary digits, and sequence inference does
\* not report a challenge of 0, 1 and white space with an empty or short
\* group as a successful binary decode.
C24_BadGroupNotDecoded ==
    ( /\ Returned("pattern-analysis")
      /\ Classification(puzzle.challenge) = "Binary to ASCII conversion"
      /\ HasBadGroup(puzzle.challenge) ) =>
        /\ binaryToAscii(puzzle.challenge).val = <<>>
        /\ ~result.success

\* C24, what holds instead: every challenge of 0, 1 and white space is
\* reported as a successful binary decode, with one character per group
\* between single spaces, whatever the length of the groups.
C24_EveryBinaryTextDecodes ==
    ( /\ Returned("pattern-analysis")
      /\ Classification(puzzle.challenge) = "Binary to ASCII conversion" ) =>
        /\ result.success
        /\ result.method = "Binary to ASCII conversion"
        /\ Len(result.solution[1]) = Len(Split(puzzle.challenge, 32))

\* an awaited call for puzzleId settles in this step with a successful outcome
SettlesWithSuccess(puzzleId) ==
    /\ pending'[puzzleId] = pending[puzzleId] - 1
    /\ LET settled == solvePuzzleWithAI(CatalogDescriptor(puzzleId), 0)
       IN  ~settled.threw /\ ~settled.hangs /\ settled.val.success

\* C25: whenever an awaited call settles with a successful outcome, the
\* handler leaves the puzzle with status "solved", also when the outcome's
\* solution is empty or absent.
C25_SuccessMarksSolved ==
    [][\A puzzleId \in PagePuzzleIds :
          SettlesWithSuccess(puzzleId) => puzzles'[puzzleId].status = "solved"]_vars

\* C25, what holds instead: the handler leaves the puzzle solved exactly when
\* the outcome is successful and has a non-empty solution; a successful
\* outcome without one leaves it unsolved.
C25_SolvedNeedsSolution ==
    [][\A puzzleId \in PagePuzzleIds :
          (pending'[puzzleId] = pending[puzzleId] - 1) =>
              LET settled == solvePuzzleWithAI(CatalogDescriptor(puzzleId), 0).val
              IN  puzzles'[puzzleId].status =
                      IF /\ settled.success
                         /\ settled.solution # None
                         /\ settled.solution # Some(<<>>)
                      THEN "solved" ELSE "unsolved"]_vars

\* C26: in every state of the page, if some puzzle has status "solving" then
\* solverRunning is true and currentSolvingPuzzle is the id of a puzzle whose
\* status is "solving".
C26_SolvingImpliesRunning ==
    (\E puzzleId \in DOMAIN puzzles : puzzles[puzzleId].status = "solving") =>
        /\ solverRunning
        /\ currentSolvingPuzzle # None
        /\ puzzles[currentSolvingPuzzle[1]].status = "solving"

\* C26, what holds instead, in either page: the two solver fields agree with
\* each other, and a puzzle is "solving" only while a call or a timer for it
\* is pending.
C26_FieldsAgree ==
    /\ solverRunning <=> currentSolvingPuzzle # None
    /\ \A puzzleId \in DOMAIN puzzles :
          puzzles[puzzleId].status = "solving" => pending[puzzleId] > 0

\* the page of Index.tsx, a puzzle "solving" and the solver not running
C26_IndexSolvingNotRunning ==
    /\ DOMAIN puzzles = IndexPuzzleNumbers
    /\ \E puzzleNumber \in IndexPuzzleNumbers : puzzles[puzzleNumber].status = "solving"
    /\ ~solverRunning

\* the page of part_000, a puzzle "solving" and the solver not running
C26_PageSolvingNotRunning ==
    /\ DOMAIN puzzles = PagePuzzleIds
    /\ \E puzzleId \in PagePuzzleIds : puzzles[puzzleId].status = "solving"
    /\ ~solverRunning

\* the call for puzzleId that settles in this step was abandoned: the toggle
\* set the puzzle back to "unsolved" while the call was awaited and no solve
\* of the puzzle was requested since
AbandonedSettles(puzzleId) ==
    /\ pending'[puzzleId] = pending[puzzleId] - 1
    /\ puzzles[puzzleId].status = "unsolved"

\* C27: the completion of a call abandoned by the stop toggle changes
\* nothing: the puzzle stays "unsolved" and solverRunning and
\* currentSolvingPuzzle stay as they are.
C27_AbandonedHasNoEffect ==
    [][\A puzzleId \in PagePuzzleIds :
          AbandonedSettles(puzzleId) =>
              /\ puzzles'[puzzleId].status = "unsolved"
              /\ UNCHANGED <<solverRunning, currentSolvingPuzzle>>]_vars

\* C27, what holds instead: the completion of an abandoned call acts like any
\* other: it marks the puzzle by its outcome and clears both solver fields.
C27_AbandonedStillActs ==
    [][\A puzzleId \in PagePuzzleIds :
          AbandonedSettles(puzzleId) =>
              /\ puzzles'[puzzleId] =
                    SettledEntry(puzzles[puzzleId],
                                 solvePuzzleWithAI(CatalogDescriptor(puzzleId), 0))
              /\ ~solverRunning'
              /\ currentSolvingPuzzle' = None]_vars

\* C28: on the page a puzzle with status "solved" keeps that status in every
\* step: a click on a solve button, a start or stop by the toggle, or the
\* completion of an awaited call, an abandoned or doubled one included.
C28_SolvedIsAbsorbing ==
    [][\A puzzleId \in PagePuzzleIds :
          puzzles[puzzleId].status = "solved" =>
              /\ puzzles'[puzzleId].status = "solved"
              /\ puzzles'[puzzleId].foundSolution = puzzles[puzzleId].foundSolution]_vars

\* C28 witness: a puzzle the page solved itself has another call awaited,
\* whose completion will act on the solved puzzle
C28_Witness ==
    \E puzzleId \in PagePuzzleIds :
        /\ puzzleId > INITIALLY_SOLVED_PUZZLE_COUNT
        /\ puzzles[puzzleId].status = "solved"
        /\ pending[puzzleId] > 0

\* C28 second case: a puzzle is solved and the solver is running for
\* another, so that the toggle would stop it
C28_WitnessStop ==
    /\ puzzles[9].status = "solved"
    /\ puzzles[12].status = "solving"
    /\ solverRunning

\* C29: for a non-empty challenge of printable characters only, the decode
\* cascade succeeds within three attempts, by Base64, Hex to ASCII or ROT13;
\* Binary to ASCII and XOR with KEY are not reached.
C29_PrintableSolvedByThird ==
    ( /\ Returned("cipher-decode")
      /\ puzzle.challenge # <<>>
      /\ \A i \in 1..Len(puzzle.challenge) : puzzle.challenge[i] \in 32..126 ) =>
        /\ result.success
        /\ result.attempts <= 3
        /\ result.method \in {"Base64", "Hex to ASCII", "ROT13"}
        /\ 3 \in AcceptingCodecs(puzzle.challenge)

\* C29 witness: ROT13 won on a printable challenge that Binary to ASCII,
\* next in the cascade, would have decoded to printable text
C29_Witness ==
    /\ Returned("cipher-decode")
    /\ \A i \in 1..Len(puzzle.challenge) : puzzle.challenge[i] \in 32..126
    /\ 4 \in AcceptingCodecs(puzzle.challenge)
    /\ result.method = "ROT13"
    /\ result.attempts = 3

\* C30: given that the delay timer of every awaited call fires in the end,
\* a puzzle with status "solving" leaves that status in the end.
C30_SolvingEnds ==
    \A puzzleId \in PagePuzzleIds :
        (puzzles[puzzleId].status = "solving") ~> (puzzles[puzzleId].status # "solving")

\* C30 witness: puzzle 16 is "solving" with its second call awaited, the
\* first one abandoned by a stop
C30_Witness ==
    /\ puzzles[16].status = "solving"
    /\ pending[16] = 2
    /\ solverRunning

\* C30 second case: a puzzle went through "solving" and the completion of
\* its call left it solved and the solver stopped
C30_WitnessSettled ==
    /\ puzzles[9].status = "solved"
    /\ pending[9] = 0
    /\ ~solverRunning

====
